---- MODULE Spec2Model ----
(***************************************************************************)
(* DocMail AI assistant: the draft orchestrator (backend/main.py), the     *)
(* fine-tuned provider (core/runpod_service.py), the managed provider      *)
(* handle (core/aws_service.py), the configuration loader                  *)
(* (config/loader.py) and the prompt store (prompts/manager.py).           *)
(*                                                                         *)
(* Python strings are modelled as sequences of one-character strings, so   *)
(* that lower(), the substring test, join, replace and strip are computed  *)
(* character by character as the interpreter computes them.                *)
(***************************************************************************)
EXTENDS Integers, Sequences, FiniteSets, TLC

VARIABLES app, reqs, call, store, front, cls, tasks, health, gen

vars == <<app, reqs, call, store, front, cls, tasks, health, gen>>

(***************************************************************************)
(* Bounds of the model.                                                    *)
(***************************************************************************)
\* requests handled by one process
MaxRequests == 2
\* token fragments in one choice of an upstream response
MaxTokens == 3
\* prompt lookups observed in one run of the prompt store
MaxCalls == 2
\* prompts submitted in one front-end session
MaxPrompts == 2
\* calls made on the class AwsService and its handle
MaxAwsOps == 3
\* tasks that read a sub-client of the handle concurrently
MaxTasks == 3
\* topics of the dataset generation
NumTopics == 3
\* runs of the dataset generation
MaxRuns == 2

(***************************************************************************)
(* Python str operations.                                                  *)
(***************************************************************************)
UpperLetters == <<"A","B","C","D","E","F","G","H","I","J","K","L","M",
                  "N","O","P","Q","R","S","T","U","V","W","X","Y","Z">>
LowerLetters == <<"a","b","c","d","e","f","g","h","i","j","k","l","m",
                  "n","o","p","q","r","s","t","u","v","w","x","y","z">>

\* str.lower() on one character
LowerChar(c) ==
    IF \E i \in 1..Len(UpperLetters) : UpperLetters[i] = c
    THEN LowerLetters[CHOOSE i \in 1..Len(UpperLetters) : UpperLetters[i] = c]
    ELSE c

\* str.lower()
Lower(s) == [i \in 1..Len(s) |-> LowerChar(s[i])]

\* the Python expression  sub in s
Contains(sub, s) ==
    \E i \in 0..(Len(s) - Len(sub)) : SubSeq(s, i + 1, i + Len(sub)) = sub

\* "".join(parts)
RECURSIVE Join(_)
Join(parts) == IF parts = <<>> THEN <<>> ELSE Head(parts) \o Join(Tail(parts))

\* str.replace(old, ""): one left-to-right pass over non-overlapping matches
RECURSIVE Replace(_, _)
Replace(s, old) ==
    IF Len(s) < Len(old) THEN s
    ELSE IF SubSeq(s, 1, Len(old)) = old
         THEN Replace(SubSeq(s, Len(old) + 1, Len(s)), old)
         ELSE <<Head(s)>> \o Replace(Tail(s), old)

Whitespace == {" ", "\n", "\t"}

RECURSIVE LStrip(_)
LStrip(s) == IF s # <<>> /\ Head(s) \in Whitespace THEN LStrip(Tail(s)) ELSE s

RECURSIVE RStrip(_)
RStrip(s) ==
    IF s # <<>> /\ s[Len(s)] \in Whitespace
    THEN RStrip(SubSeq(s, 1, Len(s) - 1))
    ELSE s

\* str.strip()
Strip(s) == RStrip(LStrip(s))

(***************************************************************************)
(* String literals of the program and of the upstream responses.           *)
(***************************************************************************)
END_OF_TEXT == <<"<","|","e","n","d","_","o","f","_","t","e","x","t","|",">">>
EOT_ID == <<"<","|","e","o","t","_","i","d","|",">">>
NO_CONTENT == <<"E","r","r","o","r",":"," ","M","o","d","e","l"," ","r","e","t","u","r","n","e","d"," ","n","o"," ","c","o","n","t","e","n","t",".">>
S_Hello == <<"H","e","l","l","o"," ">>
S_world == <<"w","o","r","l","d">>
S_Hello_world == <<"H","e","l","l","o"," ","w","o","r","l","d">>
S_eot_head == <<"<","|","e","o","t","_">>
S_eot_tail == <<"i","d","|",">">>
S_runpod == <<"r","u","n","p","o","d">>
S_RunPod == <<"R","u","n","P","o","d">>
S_RUNPOD == <<"R","U","N","P","O","D">>
S_bedrock == <<"b","e","d","r","o","c","k">>
S_Bedrock == <<"B","e","d","r","o","c","k">>
S_openai == <<"o","p","e","n","a","i">>
S_my_runpod == <<"m","y","-","r","u","n","p","o","d","-","2">>
S_rash == <<"M","y"," ","r","a","s","h"," ","i","s"," ","g","e","t","t","i","n","g"," ","w","o","r","s","e">>
S_Hi == <<" ","H","i","\n">>
EmptyStr == <<>>

TIMEOUT_MESSAGE == "The Physician Model is waking up. Please try again in 1 minute."

(***************************************************************************)
(* The fine-tuned backend's answer to one POST .../runsync, as             *)
(* requests.post, raise_for_status and response.json() present it.         *)
(***************************************************************************)
\* the token fragments a choice is built from
Fragments == {S_Hello, S_world, EOT_ID, END_OF_TEXT, S_eot_head, S_eot_tail, S_Hi}

RECURSIVE SeqsUpTo(_, _)
SeqsUpTo(S, n) ==
    IF n = 0 THEN {<<>>}
    ELSE LET shorter == SeqsUpTo(S, n - 1)
         IN shorter \cup {Append(q, x) : q \in {r \in shorter : Len(r) = n - 1}, x \in S}

TokenLists == SeqsUpTo(Fragments, MaxTokens)

Texts == {EmptyStr, S_Hello_world, S_Hi, EOT_ID, S_Hello \o END_OF_TEXT}

\* a JSON object of "choices": the keys "text" and "tokens" may each be absent,
\* null or hold a value; "tokens" holds a list of strings or one string
Choice(tk, t, kk, k) == [text_kind |-> tk, text |-> t, tokens_kind |-> kk, tokens |-> k]

Choices ==
    {Choice("absent", EmptyStr, "list", l) : l \in TokenLists}
    \cup {Choice("str", t, "absent", <<>>) : t \in Texts}
    \cup {Choice("str", t, "list", <<S_world>>) : t \in {EmptyStr, S_Hi}}
    \cup {Choice("absent", EmptyStr, "str", <<t>>) : t \in {S_Hi, S_Hello \o EOT_ID}}
    \cup {Choice("absent", EmptyStr, "absent", <<>>),
          Choice("null", EmptyStr, "absent", <<>>),
          Choice("absent", EmptyStr, "null", <<>>)}

OtherChoice == Choice("str", S_world, "absent", <<>>)

\* a JSON object of "output": the key "choices" may be absent
Output(hc, cs) == [has_choices |-> hc, choices |-> cs]

OtherOutput == Output(TRUE, <<OtherChoice>>)

Outputs ==
    {Output(FALSE, <<>>), Output(TRUE, <<>>)}
    \cup {Output(TRUE, <<c>>) : c \in Choices}
    \cup {Output(TRUE, <<c, OtherChoice>>) : c \in {Choice("absent", EmptyStr, "list", <<S_Hello, S_world, EOT_ID>>)}}

\* the decoded JSON body: the key "output" may be absent, null or a list
Data(ok, os) == [output_kind |-> ok, output |-> os]

Datas ==
    {Data("absent", <<>>), Data("null", <<>>), Data("list", <<>>)}
    \cup {Data("list", <<o>>) : o \in Outputs}
    \cup {Data("list", <<o, OtherOutput>>) : o \in {Output(FALSE, <<>>), Output(TRUE, <<>>)}}

\* what the POST ends in
Upstream(kind, msg, data) == [kind |-> kind, message |-> msg, data |-> data]

UpstreamErrors ==
    {Upstream("timeout", "ReadTimeout", Data("absent", <<>>)),
     Upstream("connection_error", "Connection refused", Data("absent", <<>>)),
     Upstream("http_error", "500 Server Error", Data("absent", <<>>)),
     Upstream("bad_json", "Expecting value", Data("absent", <<>>))}

Upstreams == UpstreamErrors \cup {Upstream("ok", "", d) : d \in Datas}

\* **kwargs of generate_draft: temperature in tenths
Kwargs(ht, t, hm, m) ==
    [has_temperature |-> ht, temperature |-> t, has_max_tokens |-> hm, max_tokens |-> m]

KwargsSet == {Kwargs(FALSE, 0, FALSE, 0), Kwargs(TRUE, 3, TRUE, 1024),
              Kwargs(TRUE, 6, TRUE, 1024), Kwargs(TRUE, 9, FALSE, 0)}

(***************************************************************************)
(* core/runpod_service.py: RunPodService.generate_draft                    *)
(***************************************************************************)
RUNPOD_DEFAULT_TEMPERATURE == 6
RUNPOD_DEFAULT_MAX_TOKENS == 1024

\* the outcome of one generate_draft call
Return(text) == [kind |-> "return", text |-> text, exc |-> "", message |-> ""]
Raise(exc, msg) == [kind |-> "raise", text |-> EmptyStr, exc |-> exc, message |-> msg]

\* sampling_params of the payload
SamplingParams(kwargs) ==
    [max_tokens |-> IF kwargs.has_max_tokens THEN kwargs.max_tokens
                    ELSE RUNPOD_DEFAULT_MAX_TOKENS,
     temperature |-> IF kwargs.has_temperature THEN kwargs.temperature
                     ELSE RUNPOD_DEFAULT_TEMPERATURE,
     stop |-> <<END_OF_TEXT, EOT_ID>>]

\* "Handle Text vs Tokens": text_content, or null when the chosen key holds null
TextContent(first_choice) ==
    IF first_choice.text_kind # "absent"
    THEN [null |-> first_choice.text_kind = "null", s |-> first_choice.text]
    ELSE IF first_choice.tokens_kind # "absent"
         THEN [null |-> first_choice.tokens_kind = "null",
               s |-> IF first_choice.tokens_kind = "list"
                     THEN Join(first_choice.tokens)
                     ELSE IF first_choice.tokens_kind = "str"
                          THEN first_choice.tokens[1]
                          ELSE EmptyStr]
         ELSE [null |-> FALSE, s |-> EmptyStr]

\* mutant: the cleanup forgets the second sentinel
Cleanup_OnlyEndOfText(text_content) == Strip(Replace(text_content, END_OF_TEXT))

\* "FINAL CLEANUP"
Cleanup(text_content) == Strip(Replace(Replace(text_content, END_OF_TEXT), EOT_ID))

\* mutant: the first output is read without the length check
ParseResponse_NoLengthCheck(data) ==
    IF data.output_kind = "null"
    THEN Raise("TypeError", "object of type 'NoneType' has no len()")
    ELSE IF data.output_kind = "list"
         THEN IF Len(data.output) = 0
              THEN Raise("IndexError", "list index out of range")
              ELSE LET first == data.output[1]
                       choices == IF first.has_choices THEN first.choices ELSE <<>>
                   IN IF choices # <<>>
                      THEN LET tc == TextContent(choices[1])
                           IN IF tc.null
                              THEN Raise("AttributeError",
                                         "'NoneType' object has no attribute 'replace'")
                              ELSE Return(Cleanup(tc.s))
                      ELSE Return(NO_CONTENT)
         ELSE Return(NO_CONTENT)

\* "Parse vLLM Response"
ParseResponse(data) ==
    IF data.output_kind = "null"
    THEN Raise("TypeError", "object of type 'NoneType' has no len()")
    ELSE IF data.output_kind = "list" /\ Len(data.output) > 0
         THEN LET first == data.output[1]
                  choices == IF first.has_choices THEN first.choices ELSE <<>>
              IN IF choices # <<>>
                 THEN LET tc == TextContent(choices[1])
                      IN IF tc.null
                         THEN Raise("AttributeError",
                                    "'NoneType' object has no attribute 'replace'")
                         ELSE Return(Cleanup(tc.s))
                 ELSE Return(NO_CONTENT)
         ELSE Return(NO_CONTENT)

\* mutant: a timed-out POST is sent a second time
RunPodService_posts_RetriesTimeout(system_prompt, user_prompt, kwargs, up) ==
    IF up.kind = "timeout" THEN 2 ELSE 1

\* the outbound POSTs of one invocation: the single requests.post of the try
\* block, made before anything in it can fail
RunPodService_posts(system_prompt, user_prompt, kwargs, up) == 1

\* the try block and its two except clauses
RunPodService_generate_draft(system_prompt, user_prompt, kwargs, up) ==
    IF up.kind = "timeout" THEN Raise("TimeoutError", TIMEOUT_MESSAGE)
    ELSE IF up.kind = "ok" THEN ParseResponse(up.data)
    ELSE Raise(up.kind, up.message)

(***************************************************************************)
(* prompts/manager.py: the prompt store                                    *)
(***************************************************************************)
Sections == {"docmail", "title", "nosuch"}
Names == {"physician_system_prompt", "rag_system_prompt", "nosuch"}

\* a key of a TOML table: absent, or present with a string value
NoEntry == [present |-> FALSE, value |-> ""]
Entry(v) == [present |-> TRUE, value |-> v]

\* a top-level key of the parsed TOML document: absent, a table, or a scalar
NoSection == [kind |-> "absent", entries |-> [n \in Names |-> NoEntry]]
ScalarSection == [kind |-> "scalar", entries |-> [n \in Names |-> NoEntry]]
Table(physician, rag) ==
    [kind |-> "table",
     entries |-> [n \in Names |->
                    IF n = "physician_system_prompt" THEN physician
                    ELSE IF n = "rag_system_prompt" THEN rag
                    ELSE NoEntry]]

Doc(docmail, title) ==
    [s \in Sections |-> IF s = "docmail" THEN docmail
                        ELSE IF s = "title" THEN title
                        ELSE NoSection]

FullDoc == Doc(Table(Entry("PHYSICIAN"), Entry("RAG")), NoSection)

\* tomllib.load of the prompts files the process may be started with
PromptDocs ==
    {FullDoc,
     Doc(Table(Entry("PHYSICIAN"), Entry("RAG")), ScalarSection),
     Doc(Table(Entry("PHYSICIAN"), NoEntry), NoSection),
     Doc(Table(Entry(""), Entry("RAG")), NoSection),
     Doc(NoSection, NoSection)}

\* a prompts file: missing, or holding a document
PromptFile(exists, doc) == [exists |-> exists, doc |-> doc]
PromptFiles == {PromptFile(FALSE, FullDoc)} \cup {PromptFile(TRUE, d) : d \in PromptDocs}

\* the prompts files the service is started with
ServicePromptFiles ==
    {PromptFile(FALSE, FullDoc), PromptFile(TRUE, FullDoc),
     PromptFile(TRUE, Doc(Table(Entry("PHYSICIAN"), NoEntry), NoSection))}

\* the module global _instance: None, or a PromptManager holding _prompts
NoInstance == [set |-> FALSE, prompts |-> Doc(NoSection, NoSection)]
Instance(doc) == [set |-> TRUE, prompts |-> doc]

\* the outcome of a lookup
Found(v) == [kind |-> "return", value |-> v, exc |-> ""]
Failed(exc) == [kind |-> "raise", value |-> "", exc |-> exc]

\* PromptManager.get_prompt: self._prompts[section][name], KeyError re-raised
get_prompt(prompts, section, name) ==
    IF prompts[section].kind = "absent" THEN Failed("KeyError")
    ELSE IF prompts[section].kind = "scalar" THEN Failed("TypeError")
    ELSE IF ~prompts[section].entries[name].present THEN Failed("KeyError")
    ELSE Found(prompts[section].entries[name].value)

\* mutant: a later call loads its file over the first load
initialize_prompt_manager_Reloads(instance, file) ==
    IF ~file.exists THEN [instance |-> instance, exc |-> "FileNotFoundError"]
    ELSE [instance |-> Instance(file.doc), exc |-> ""]

\* initialize_prompt_manager: the new value of _instance, and the exception if any
initialize_prompt_manager(instance, file) ==
    IF instance.set THEN [instance |-> instance, exc |-> ""]
    ELSE IF ~file.exists THEN [instance |-> instance, exc |-> "FileNotFoundError"]
    ELSE [instance |-> Instance(file.doc), exc |-> ""]

\* get_prompt_manager
get_prompt_manager(instance) ==
    IF instance.set THEN [kind |-> "return", exc |-> ""]
    ELSE [kind |-> "raise", exc |-> "RuntimeError"]

(***************************************************************************)
(* config/loader.py: AppConfig, and what the process is started with       *)
(***************************************************************************)
\* an optional string: unset (None, or no such key), or set to v
NoneStr == [set |-> FALSE, v |-> EmptyStr]
Some(v) == [set |-> TRUE, v |-> v]
\* Python truthiness of an optional string
Truthy(opt) == opt.set /\ opt.v # EmptyStr

\* config.toml (missing, lacking a required key, or complete), the variables
\* LLM_SOURCE and RUNPOD_API_KEY, [app] llm_source and [runpod] endpoint_id,
\* the AWS profile, the Chroma collection and the prompts file
StartEnvs ==
    [config_file : {"missing", "missing_key", "ok"},
     env_llm_source : {NoneStr, Some(S_RunPod), Some(S_my_runpod)},
     toml_llm_source : {NoneStr, Some(S_Bedrock)},
     endpoint_id : {NoneStr, Some(S_openai)},
     api_key : {NoneStr, Some(S_openai)},
     aws_ok : BOOLEAN,
     chroma_ok : BOOLEAN,
     prompts_file : ServicePromptFiles]

NoConfig == [llm_source |-> EmptyStr, runpod_endpoint_id |-> NoneStr,
             runpod_api_key |-> NoneStr]

\* AppConfig.__init__: the loaded config, exit(1), or ValueError
AppConfig_init(e) ==
    IF e.config_file = "missing" THEN [kind |-> "exit", config |-> NoConfig]
    ELSE LET toml_source == IF e.toml_llm_source.set THEN e.toml_llm_source.v
                            ELSE S_bedrock
             llm_source == Lower(IF e.env_llm_source.set THEN e.env_llm_source.v
                                 ELSE toml_source)
             config == [llm_source |-> llm_source,
                        runpod_endpoint_id |-> e.endpoint_id,
                        runpod_api_key |-> e.api_key]
         IN IF e.config_file = "missing_key" THEN [kind |-> "exit", config |-> NoConfig]
            ELSE IF llm_source = S_runpod
                    /\ (~Truthy(e.endpoint_id) \/ ~Truthy(e.api_key))
                 THEN [kind |-> "raise", config |-> NoConfig]
                 ELSE [kind |-> "ok", config |-> config]

(***************************************************************************)
(* core/aws_service.py: the managed provider handle                        *)
(***************************************************************************)
BEDROCK_LLM_TEMPERATURE == 7

\* app.state.aws: None, or the handle with its lazily built sub-clients
NoAws == [set |-> FALSE, llm_built |-> FALSE, llm_temperature |-> 0,
          embed_built |-> FALSE]
AwsService_init == [set |-> TRUE, llm_built |-> FALSE, llm_temperature |-> 0,
                    embed_built |-> FALSE]

\* the llm property: Bedrock(...) on first access
AwsService_llm(aws) ==
    IF aws.llm_built THEN aws
    ELSE [aws EXCEPT !.llm_built = TRUE, !.llm_temperature = BEDROCK_LLM_TEMPERATURE]

\* the embed_model property: BedrockEmbedding(...) on first access
AwsService_embed_model(aws) == [aws EXCEPT !.embed_built = TRUE]

(***************************************************************************)
(* backend/main.py: lifespan                                               *)
(***************************************************************************)
NoApp == [phase |-> "boot", config |-> NoConfig, aws |-> NoAws,
          runpod |-> FALSE, index |-> FALSE]

\* mutant: the vector index is loaded without the AWS handle
lifespan_IndexWithoutAws(e, instance) ==
    LET loaded == AppConfig_init(e)
        aws == IF e.aws_ok THEN AwsService_init ELSE NoAws
        runpod == Truthy(loaded.config.runpod_api_key)
                  /\ Truthy(loaded.config.runpod_endpoint_id)
        prompts == initialize_prompt_manager(instance, e.prompts_file)
    IN IF loaded.kind = "exit"
       THEN [app |-> [NoApp EXCEPT !.phase = "exited"], instance |-> instance]
       ELSE IF loaded.kind = "raise"
            THEN [app |-> [NoApp EXCEPT !.phase = "failed"], instance |-> instance]
            ELSE [app |-> [phase |-> IF prompts.exc = "" THEN "serving" ELSE "failed",
                           config |-> loaded.config, aws |-> aws,
                           runpod |-> runpod, index |-> e.chroma_ok],
                  instance |-> prompts.instance]

\* the startup half of lifespan: app.state and the prompt store after it
lifespan(e, instance) ==
    LET loaded == AppConfig_init(e)
        aws == IF e.aws_ok THEN AwsService_init ELSE NoAws
        runpod == Truthy(loaded.config.runpod_api_key)
                  /\ Truthy(loaded.config.runpod_endpoint_id)
        index == e.chroma_ok /\ aws.set
        aws4 == IF index THEN AwsService_embed_model(aws) ELSE aws
        prompts == initialize_prompt_manager(instance, e.prompts_file)
    IN IF loaded.kind = "exit"
       THEN [app |-> [NoApp EXCEPT !.phase = "exited"], instance |-> instance]
       ELSE IF loaded.kind = "raise"
            THEN [app |-> [NoApp EXCEPT !.phase = "failed"], instance |-> instance]
            ELSE [app |-> [phase |-> IF prompts.exc = "" THEN "serving" ELSE "failed",
                           config |-> loaded.config, aws |-> aws4,
                           runpod |-> runpod, index |-> index],
                  instance |-> prompts.instance]

\* GET /health
health_check(a) ==
    [status |-> "healthy", llm_mode |-> a.config.llm_source,
     rag_status |-> IF a.index THEN "active" ELSE "inactive"]

(***************************************************************************)
(* backend/models.py and backend/main.py: POST /generate                   *)
(***************************************************************************)
\* the fields DraftRequest declares
DraftRequestFields == {"patient_email"}

ORCH_TEMPERATURE_RUNPOD == 6
ORCH_TEMPERATURE_DEFAULT == 3
ORCH_MAX_TOKENS == 1024

RUNPOD_LABEL == "Fine-Tuned Llama 3 (RunPod)"
BEDROCK_LABEL == "Claude 4.5 Sonnet (AWS Bedrock)"

\* the JSON bodies clients post; a body without patient_email is rejected
\* whatever else it holds, and the empty body stands for all of them
Bodies ==
    {b \in [patient_email : {NoneStr, Some(EmptyStr), Some(S_rash)},
            model_source : {NoneStr, Some(S_RunPod), Some(S_bedrock)}] :
        b.patient_email.set \/ ~b.model_source.set}

\* what the fine-tuned backend would answer while a request is handled
ServiceUpstreams ==
    {Upstream("timeout", "ReadTimeout", Data("absent", <<>>)),
     Upstream("http_error", "500 Server Error", Data("absent", <<>>)),
     Upstream("ok", "", Data("list", <<Output(TRUE,
         <<Choice("absent", EmptyStr, "list", <<S_Hello, S_world, EOT_ID>>)>>)>>)),
     Upstream("ok", "", Data("list", <<>>))}

\* a request as it arrives, with what the backend would answer it; the
\* backend's answer is of no account for a body that is rejected
ServiceInputs ==
    {i \in [body : Bodies, upstream : ServiceUpstreams] :
        i.body.patient_email.set
        \/ i.upstream = Upstream("timeout", "ReadTimeout", Data("absent", <<>>))}

\* the HTTP response of one request, with what handling it did: the branch of
\* "2. Select Client" taken (routed), the client called, the prompt and the
\* temperature passed to it, the outbound POSTs made, and the exception that
\* escaped the handler if one did
Response(status, detail, draft, nodes, routed, client, prompt, temperature, posts, unhandled) ==
    [status |-> status, detail |-> detail, draft_reply |-> draft,
     source_nodes |-> nodes, routed |-> routed, client |-> client,
     system_prompt |-> prompt, temperature |-> temperature, posts |-> posts,
     unhandled |-> unhandled]

NoResponse == Response(0, "", EmptyStr, <<>>, "none", "none", "", 0, 0, "")

\* raise HTTPException(status_code, detail) before a client is called
HTTPError(status, detail, routed) ==
    Response(status, detail, EmptyStr, <<>>, routed, "none", "", 0, 0, "")

\* an exception nothing in the handler catches: the server answers 500
Unhandled(exc, routed) ==
    Response(500, "Internal Server Error", EmptyStr, <<>>, routed, "none", "", 0, 0, exc)

\* "3. Execute" with the fine-tuned client
ExecuteRunPod(system_prompt, user_prompt, temperature, up) ==
    LET kwargs == Kwargs(TRUE, temperature, TRUE, ORCH_MAX_TOKENS)
        r == RunPodService_generate_draft(system_prompt, user_prompt, kwargs, up)
        posts == RunPodService_posts(system_prompt, user_prompt, kwargs, up)
    IN IF r.kind = "return"
       THEN Response(200, "", r.text, <<RUNPOD_LABEL>>, "runpod", "runpod",
                     system_prompt, temperature, posts, "")
       ELSE Response(500, r.message, EmptyStr, <<>>, "runpod", "runpod",
                     system_prompt, temperature, posts, "")

\* "3. Execute" with the managed client: AwsService defines no generate_draft,
\* and the AttributeError is caught by the handler's except clause
ExecuteAws(system_prompt, user_prompt, temperature) ==
    Response(500, "'AwsService' object has no attribute 'generate_draft'",
             EmptyStr, <<>>, "aws", "aws", system_prompt, temperature, 0, "")

\* "2. Select Client" and "3. Execute", from the lower-cased requested_source on
route_and_execute(a, instance, requested_source, user_prompt, up) ==
    LET pm == get_prompt_manager(instance)
        use_runpod == Contains(S_runpod, requested_source)
        temperature == IF use_runpod THEN ORCH_TEMPERATURE_RUNPOD
                       ELSE ORCH_TEMPERATURE_DEFAULT
    IN IF pm.kind = "raise" THEN Unhandled(pm.exc, "none")
       ELSE IF use_runpod
            THEN IF ~a.runpod
                 THEN HTTPError(503, "RunPod service is not configured or failed to start.",
                                "runpod")
                 ELSE LET sp == get_prompt(instance.prompts, "docmail",
                                           "physician_system_prompt")
                      IN IF sp.kind = "raise" THEN Unhandled(sp.exc, "runpod")
                         ELSE ExecuteRunPod(sp.value, user_prompt, temperature, up)
            ELSE IF ~a.aws.set
                 THEN HTTPError(503, "AWS Bedrock service is not configured.", "aws")
                 ELSE LET sp == get_prompt(instance.prompts, "docmail",
                                           "rag_system_prompt")
                      IN IF sp.kind = "raise" THEN Unhandled(sp.exc, "aws")
                         ELSE ExecuteAws(sp.value, user_prompt, temperature)

\* the handler of POST /generate on a validated or rejected body
generate_draft(a, instance, body, up) ==
    IF ~body.patient_email.set THEN HTTPError(422, "Field required", "none")
    ELSE IF "model_source" \notin DraftRequestFields
         THEN Unhandled("AttributeError", "none")
         ELSE route_and_execute(a, instance,
                  Lower(IF Truthy(body.model_source) THEN body.model_source.v
                        ELSE a.config.llm_source),
                  body.patient_email.v, up)

(***************************************************************************)
(* frontend/app.py: one run of the script on a submitted prompt            *)
(***************************************************************************)
\* what requests.post(API_URL, json=payload) ends in: a response with a status
\* code, a body text and, for 200, the decoded JSON object whose keys
\* "draft_reply" and "source_nodes" may each be absent; or a RequestException
Answer(kind, status, text, has_draft, draft, has_sources, sources) ==
    [kind |-> kind, status_code |-> status, text |-> text,
     has_draft |-> has_draft, draft_reply |-> draft,
     has_sources |-> has_sources, source_nodes |-> sources]

NO_DRAFT == "Error: No draft returned."

\* the answers of the HTTP surface of POST /generate, and the failures to reach it
Answers ==
    {Answer("response", 200, "{...}", TRUE, "Dear patient", TRUE, <<RUNPOD_LABEL>>),
     Answer("response", 200, "{...}", TRUE, "", TRUE, <<>>),
     Answer("response", 200, "{}", FALSE, "", FALSE, <<>>),
     Answer("response", 422, "{\"detail\":[...]}", FALSE, "", FALSE, <<>>),
     Answer("response", 500, "Internal Server Error", FALSE, "", FALSE, <<>>),
     Answer("response", 503, "{\"detail\":\"AWS Bedrock service is not configured.\"}",
            FALSE, "", FALSE, <<>>),
     Answer("ConnectionError", 0, "Connection refused", FALSE, "", FALSE, <<>>),
     Answer("ReadTimeout", 0, "Read timed out", FALSE, "", FALSE, <<>>)}

\* the prompts st.chat_input hands over: never None and never empty
Prompts == {"My rash is getting worse", "Can I stop the antibiotics?"}

\* an entry of st.session_state.messages; content is the text as its parts
Message(role, content, has_sources, sources) ==
    [role |-> role, content |-> content, has_sources |-> has_sources,
     sources |-> sources]

\* "Save to History" on a 200 answer
AssistantDraft(answer) ==
    Message("assistant",
            <<IF answer.has_draft THEN answer.draft_reply ELSE NO_DRAFT>>,
            TRUE,
            IF answer.has_sources THEN answer.source_nodes ELSE <<>>)

\* the else branch: f"**Error {response.status_code}:** {response.text}"
AssistantError(answer) ==
    Message("assistant", <<"**Error ", answer.status_code, ":** ", answer.text>>,
            FALSE, <<>>)

\* the except branch: f"**Connection Error:** Could not reach backend ..."
AssistantConnectionError(answer) ==
    Message("assistant",
            <<"**Connection Error:** Could not reach backend at ", "API_URL",
              ".\n\nDetails: ", answer.text>>,
            FALSE, <<>>)

\* mutant: the except branch shows the error without saving it to the history
chat_turn_ErrorNotSaved(messages, prompt, answer) ==
    LET with_user == Append(messages, Message("user", <<prompt>>, FALSE, <<>>))
    IN IF answer.kind # "response" THEN with_user
       ELSE IF answer.status_code = 200
            THEN Append(with_user, AssistantDraft(answer))
            ELSE Append(with_user, AssistantError(answer))

\* "5. User Input" and "6. Backend Interaction": st.session_state.messages
\* after the run of the script that handles the prompt
chat_turn(messages, prompt, answer) ==
    LET with_user == Append(messages, Message("user", <<prompt>>, FALSE, <<>>))
    IN IF answer.kind # "response"
       THEN Append(with_user, AssistantConnectionError(answer))
       ELSE IF answer.status_code = 200
            THEN Append(with_user, AssistantDraft(answer))
            ELSE Append(with_user, AssistantError(answer))

(***************************************************************************)
(* core/aws_service.py: the class AwsService, its singleton and the lazy   *)
(* sub-clients of a handle                                                 *)
(***************************************************************************)
\* the config arguments callers pass: None, or an AppConfig
ConfigArgs == {"None", "config_a", "config_b"}

\* the lazily built sub-clients of a handle
SubClients == {"s3_client", "llm", "embed_model"}
\* those the getter also binds to the global Settings
BoundToSettings == {"llm", "embed_model"}

\* an AwsService object after __init__: _s3_client, _llm, _embed_model are
\* None (0) or the identity of the client object held
NewHandle(config) ==
    [config |-> config, sub |-> [k \in SubClients |-> 0]]

\* the class attribute _instance (0 is None, else the index of the object in
\* objects), the objects whose __init__ completed, every object _instance was
\* ever bound to, the client objects constructed so far per kind, and the
\* global Settings
NoClass ==
    [instance |-> 0, objects |-> <<>>, registered |-> {},
     built |-> [k \in SubClients |-> 0],
     settings |-> [k \in BoundToSettings |-> 0]]

\* AwsService.__init__(config); session_ok is whether boto3.Session finds the
\* profile 'docmail'
AwsService_new(c, config, session_ok) ==
    IF c.instance # 0 THEN [cls |-> c, exc |-> "Exception"]
    ELSE IF ~session_ok THEN [cls |-> c, exc |-> "ProfileNotFound"]
    ELSE [cls |-> [c EXCEPT !.objects = Append(c.objects, NewHandle(config)),
                            !.instance = Len(c.objects) + 1,
                            !.registered = c.registered \cup {Len(c.objects) + 1}],
          exc |-> ""]

\* mutant: get_instance constructs whenever a config is passed
AwsService_get_instance_Rebuilds(c, config, session_ok) ==
    IF config = "None"
    THEN IF c.instance = 0 THEN [cls |-> c, exc |-> "ValueError", returned |-> 0]
         ELSE [cls |-> c, exc |-> "", returned |-> c.instance]
    ELSE LET made == AwsService_new([c EXCEPT !.instance = 0], config, session_ok)
         IN IF made.exc # "" THEN [cls |-> c, exc |-> made.exc, returned |-> 0]
            ELSE [cls |-> made.cls, exc |-> "", returned |-> made.cls.instance]

\* AwsService.get_instance(config)
AwsService_get_instance(c, config, session_ok) ==
    IF c.instance = 0
    THEN IF config = "None" THEN [cls |-> c, exc |-> "ValueError", returned |-> 0]
         ELSE LET made == AwsService_new(c, config, session_ok)
              IN IF made.exc # "" THEN [cls |-> c, exc |-> made.exc, returned |-> 0]
                 ELSE [cls |-> made.cls, exc |-> "", returned |-> made.cls.instance]
    ELSE [cls |-> c, exc |-> "", returned |-> c.instance]

\* a property getter, first statement: "if self._x is None"
property_is_none(c, h, kind) == c.objects[h].sub[kind] = 0

\* mutant: the getter constructs a client on every access
property_build_Always(c, h, kind, missing) ==
    LET id == c.built[kind] + 1
    IN [c EXCEPT !.built[kind] = id,
                 !.objects[h].sub[kind] = id,
                 !.settings = IF kind \in BoundToSettings
                              THEN [c.settings EXCEPT ![kind] = id]
                              ELSE c.settings]

\* a property getter, the body of the if: construct the client, keep it in
\* self._x and, for llm and embed_model, bind it to Settings
property_build(c, h, kind, missing) ==
    IF ~missing THEN c
    ELSE LET id == c.built[kind] + 1
         IN [c EXCEPT !.built[kind] = id,
                      !.objects[h].sub[kind] = id,
                      !.settings = IF kind \in BoundToSettings
                                   THEN [c.settings EXCEPT ![kind] = id]
                                   ELSE c.settings]

\* a property getter, last statement: "return self._x"
property_return(c, h, kind) == c.objects[h].sub[kind]

\* one access handle.s3_client, handle.llm or handle.embed_model
AwsService_property(c, h, kind) ==
    LET after == property_build(c, h, kind, property_is_none(c, h, kind))
    IN [cls |-> after, returned |-> property_return(after, h, kind)]

\* mutant: the getter awaits between its test and the construction
SuspensionPoints_AfterCheck == {"checked"}

\* the statements of a getter after which the running task yields to the
\* event loop: the getters contain no await
SuspensionPoints == {}

(***************************************************************************)
(* scripts/generate_docmail_dataset.py: main and its output file           *)
(***************************************************************************)
\* the topics of TOPICS, in their order
Topics == 1..NumTopics

\* "Assuming 10 records per topic"
ASSUMED_RECORDS_PER_TOPIC == 10

\* the records generate_batch returns: none when the completion fails or does
\* not parse, else the five asked for
BatchSizes == {0, 5}

\* the output file as the checkpoint writes made on it: each the topic and
\* the number of lines appended
Chunk(topic, records) == [topic |-> topic, records |-> records]

\* sum(1 for line in f)
RECURSIVE LineCount(_)
LineCount(file) ==
    IF file = <<>> THEN 0 ELSE Head(file).records + LineCount(Tail(file))

\* "RESUME LOGIC": start_topic_index = existing_count // 10
start_topic_index(file) == LineCount(file) \div ASSUMED_RECORDS_PER_TOPIC

\* the body of the loop for one topic: two sub-batches, then the checkpoint
\* write if any record came back
process_topic(file, topic, first, second) ==
    IF first + second > 0 THEN Append(file, Chunk(topic, first + second)) ELSE file

(***************************************************************************)
(* The service: startup, then requests.                                    *)
(***************************************************************************)
Requests == 1..MaxRequests

IdleRequest == [pc |-> "idle", body |-> [patient_email |-> NoneStr, model_source |-> NoneStr],
                upstream |-> Upstream("none", "", Data("absent", <<>>)),
                resp |-> NoResponse]

IdleCall == [n |-> 0, kwargs |-> Kwargs(FALSE, 0, FALSE, 0),
             upstream |-> Upstream("none", "", Data("absent", <<>>)),
             params |-> SamplingParams(Kwargs(FALSE, 0, FALSE, 0)),
             result |-> Return(EmptyStr), posts |-> 0]

IdleStore == [instance |-> NoInstance, n |-> 0, section |-> "nosuch", name |-> "nosuch",
              result |-> Found(""),
              init_called |-> FALSE, before |-> NoInstance,
              file |-> PromptFile(FALSE, FullDoc), init_exc |-> ""]

\* the front end's session: st.session_state.messages, and the prompts
\* submitted with the answers they got
IdleFront == [messages |-> <<>>, prompts |-> <<>>, answers |-> <<>>]

\* no AwsService call made yet
IdleClass == [state |-> NoClass, n |-> 0,
              last |-> [op |-> "none", config |-> "None", kind |-> "none",
                        exc |-> "", returned |-> 0, before |-> NoClass]]

\* the tasks of the event loop that read a sub-client of the handle: the one
\* that holds the thread (0 if none), and for each its position in the getter,
\* the sub-client it reads, the outcome of its test and the object it got
Tasks == 1..MaxTasks

IdleTask == [pc |-> "ready", kind |-> "none", missing |-> FALSE, seen |-> 0]

IdleTasks == [current |-> 0, of |-> [t \in Tasks |-> IdleTask]]

\* no GET /health answered yet
NoHealth == [asked |-> FALSE, response |-> [status |-> "", llm_mode |-> EmptyStr,
                                            rag_status |-> ""]]

\* the dataset generation: the output file, the runs of main started so far,
\* whether one is running or has completed, its start_topic_index, the index
\* of the topic its loop is at, and the topics that had records in the file
\* when it started
IdleGen == [file |-> <<>>, runs |-> 0, pc |-> "idle", start |-> 0, i |-> 0,
            had |-> {}]

Init ==
    /\ app = NoApp
    /\ reqs = [r \in Requests |-> IdleRequest]
    /\ call = IdleCall
    /\ store = IdleStore
    /\ front = IdleFront
    /\ cls = IdleClass
    /\ tasks = IdleTasks
    /\ health = NoHealth
    /\ gen = IdleGen

\* the process starts: lifespan runs before any request is served
Startup ==
    /\ app.phase = "boot"
    /\ \E e \in StartEnvs :
         LET started == lifespan(e, store.instance)
         IN /\ app' = started.app
            /\ store' = [store EXCEPT !.instance = started.instance]
    /\ UNCHANGED <<reqs, call, front, cls, tasks, health, gen>>

\* mutant: a failed request drops the fine-tuned handle
PostGenerate_DropsHandleOnFailure(r) ==
    /\ app.phase = "serving"
    /\ \A q \in Requests \ {r} : reqs[q].pc # "in_flight"
    /\ reqs[r].pc \in {"idle", "in_flight"}
    /\ \E input \in ServiceInputs :
         LET body == input.body
             up == input.upstream
             resp == generate_draft(app, store.instance, body, up)
         IN /\ reqs' = [reqs EXCEPT ![r] =
                         [pc |-> "done", body |-> body, upstream |-> up, resp |-> resp]]
            /\ app' = IF resp.status = 500 THEN [app EXCEPT !.runpod = FALSE] ELSE app
    /\ UNCHANGED <<call, store, front, cls, tasks, health, gen>>

\* one POST /generate, from the body's arrival to the response.  The handler
\* is a coroutine without an await: the event loop's thread runs it from its
\* first statement to its last, and while it waits inside the provider's
\* requests.post (the request is in flight) no other handler is run.
PostGenerate(r) ==
    /\ app.phase = "serving"
    /\ \A q \in Requests \ {r} : reqs[q].pc # "in_flight"
    /\ reqs[r].pc \in {"idle", "in_flight"}
    /\ IF reqs[r].pc = "idle"
       THEN \E input \in ServiceInputs :
              LET body == input.body
                  up == input.upstream
                  resp == generate_draft(app, store.instance, body, up)
              IN reqs' = [reqs EXCEPT ![r] =
                            IF resp.posts > 0
                            THEN [pc |-> "in_flight", body |-> body, upstream |-> up,
                                  resp |-> NoResponse]
                            ELSE [pc |-> "done", body |-> body, upstream |-> up,
                                  resp |-> resp]]
       ELSE reqs' = [reqs EXCEPT ![r] =
                       [pc |-> "done", body |-> reqs[r].body,
                        upstream |-> reqs[r].upstream,
                        resp |-> generate_draft(app, store.instance, reqs[r].body,
                                                reqs[r].upstream)]]
    /\ UNCHANGED <<app, call, store, front, cls, tasks, health, gen>>

Next == Startup \/ \E r \in Requests : PostGenerate(r)

Spec == Init /\ [][Next]_vars

(***************************************************************************)
(* The providers on their own: RunPodService.generate_draft called with    *)
(* any keyword arguments against any upstream answer, and the managed      *)
(* handle's completion client built on first use (as the scripts do).      *)
(***************************************************************************)
ProviderInit ==
    /\ app = [NoApp EXCEPT !.aws = AwsService_init]
    /\ reqs = [r \in Requests |-> IdleRequest]
    /\ call = IdleCall
    /\ store = IdleStore
    /\ front = IdleFront
    /\ cls = IdleClass
    /\ tasks = IdleTasks
    /\ health = NoHealth
    /\ gen = IdleGen

\* one invocation; the provider keeps nothing between invocations
InvokeRunPod ==
    /\ call.n = 0
    /\ \E kwargs \in KwargsSet, up \in Upstreams :
         call' = [n |-> call.n + 1, kwargs |-> kwargs, upstream |-> up,
                  params |-> SamplingParams(kwargs),
                  result |-> RunPodService_generate_draft("PHYSICIAN", S_rash, kwargs, up),
                  posts |-> RunPodService_posts("PHYSICIAN", S_rash, kwargs, up)]
    /\ UNCHANGED <<app, reqs, store, front, cls, tasks, health, gen>>

AccessLlm ==
    /\ app.aws.set
    /\ ~app.aws.llm_built
    /\ app' = [app EXCEPT !.aws = AwsService_llm(app.aws)]
    /\ UNCHANGED <<reqs, call, store, front, cls, tasks, health, gen>>

ProviderNext == InvokeRunPod \/ AccessLlm

ProviderSpec == ProviderInit /\ [][ProviderNext]_vars

(***************************************************************************)
(* The prompt store on its own: initialisation from any prompts file, and  *)
(* lookups of any (section, name) pair.                                    *)
(***************************************************************************)
InitializePrompts ==
    /\ \E file \in PromptFiles :
         LET done == initialize_prompt_manager(store.instance, file)
         IN store' = [store EXCEPT
                        !.instance = done.instance, !.init_exc = done.exc,
                        !.init_called = TRUE, !.before = store.instance,
                        !.file = file]
    /\ UNCHANGED <<app, reqs, call, front, cls, tasks, health, gen>>

Lookup ==
    /\ store.n < MaxCalls
    /\ \E section \in Sections, name \in Names :
         store' = [store EXCEPT
                     !.n = store.n + 1, !.section = section, !.name = name,
                     !.result = IF get_prompt_manager(store.instance).kind = "raise"
                                THEN Failed("RuntimeError")
                                ELSE get_prompt(store.instance.prompts, section, name)]
    /\ UNCHANGED <<app, reqs, call, front, cls, tasks, health, gen>>

PromptNext == InitializePrompts \/ Lookup

PromptSpec == Init /\ [][PromptNext]_vars

(***************************************************************************)
(* The service's health probe: startup, then GET /health.                  *)
(***************************************************************************)
GetHealth ==
    /\ app.phase = "serving"
    /\ health' = [asked |-> TRUE, response |-> health_check(app)]
    /\ UNCHANGED <<app, reqs, call, store, front, cls, tasks, gen>>

HealthNext == Startup \/ GetHealth

HealthSpec == Init /\ [][HealthNext]_vars

(***************************************************************************)
(* The dataset generation on its own: runs of main, each interrupted       *)
(* between two topics or completed.                                        *)
(***************************************************************************)
\* main starts: the resume logic reads the output file
RunMain ==
    /\ gen.pc # "running"
    /\ gen.runs < MaxRuns
    /\ gen' = [gen EXCEPT
                 !.pc = "running", !.runs = gen.runs + 1,
                 !.start = start_topic_index(gen.file),
                 !.i = IF start_topic_index(gen.file) < NumTopics
                       THEN start_topic_index(gen.file) ELSE NumTopics,
                 !.had = {gen.file[k].topic : k \in 1..Len(gen.file)}]
    /\ UNCHANGED <<app, reqs, call, store, front, cls, tasks, health>>

\* one pass of the loop on a topic that is not skipped
ProcessTopic ==
    /\ gen.pc = "running"
    /\ gen.i < NumTopics
    /\ \E first \in BatchSizes, second \in BatchSizes :
         gen' = [gen EXCEPT
                   !.file = process_topic(gen.file, gen.i + 1, first, second),
                   !.i = gen.i + 1]
    /\ UNCHANGED <<app, reqs, call, store, front, cls, tasks, health>>

\* the loop is over: "Mission Complete"
FinishMain ==
    /\ gen.pc = "running"
    /\ gen.i = NumTopics
    /\ gen' = [gen EXCEPT !.pc = "completed"]
    /\ UNCHANGED <<app, reqs, call, store, front, cls, tasks, health>>

\* the run is interrupted between two topics
InterruptMain ==
    /\ gen.pc = "running"
    /\ gen' = [gen EXCEPT !.pc = "idle"]
    /\ UNCHANGED <<app, reqs, call, store, front, cls, tasks, health>>

DatasetNext == RunMain \/ ProcessTopic \/ FinishMain \/ InterruptMain

DatasetSpec == Init /\ [][DatasetNext]_vars

(***************************************************************************)
(* The front end on its own: prompts submitted one after another, each     *)
(* answered by the backend in any of the ways the HTTP surface answers.    *)
(***************************************************************************)
\* one run of the script on a submitted prompt
SubmitPrompt ==
    /\ Len(front.prompts) < MaxPrompts
    /\ \E prompt \in Prompts, answer \in Answers :
         front' = [messages |-> chat_turn(front.messages, prompt, answer),
                   prompts |-> Append(front.prompts, prompt),
                   answers |-> Append(front.answers, answer)]
    /\ UNCHANGED <<app, reqs, call, store, cls, tasks, health, gen>>

FrontNext == SubmitPrompt

FrontSpec == Init /\ [][FrontNext]_vars

(***************************************************************************)
(* The class AwsService on its own: get_instance and the constructor       *)
(* called with any config, and the sub-clients of the handle read one      *)
(* after another.                                                          *)
(***************************************************************************)
Called(op, config, kind, exc, returned) ==
    [op |-> op, config |-> config, kind |-> kind, exc |-> exc,
     returned |-> returned, before |-> cls.state]

GetInstance ==
    /\ cls.n < MaxAwsOps
    /\ \E config \in ConfigArgs, session_ok \in BOOLEAN :
         LET got == AwsService_get_instance(cls.state, config, session_ok)
         IN cls' = [state |-> got.cls, n |-> cls.n + 1,
                    last |-> Called("get_instance", config, "none", got.exc,
                                    got.returned)]
    /\ UNCHANGED <<app, reqs, call, store, front, tasks, health, gen>>

Construct ==
    /\ cls.n < MaxAwsOps
    /\ \E config \in ConfigArgs, session_ok \in BOOLEAN :
         LET made == AwsService_new(cls.state, config, session_ok)
         IN cls' = [state |-> made.cls, n |-> cls.n + 1,
                    last |-> Called("constructor", config, "none", made.exc,
                                    IF made.exc = "" THEN made.cls.instance ELSE 0)]
    /\ UNCHANGED <<app, reqs, call, store, front, tasks, health, gen>>

\* handle.s3_client, handle.llm or handle.embed_model on the registered handle
AccessProperty ==
    /\ cls.n < MaxAwsOps
    /\ cls.state.instance # 0
    /\ tasks.current = 0
    /\ \E kind \in SubClients :
         LET got == AwsService_property(cls.state, cls.state.instance, kind)
         IN cls' = [state |-> got.cls, n |-> cls.n + 1,
                    last |-> Called("property", "None", kind, "", got.returned)]
    /\ UNCHANGED <<app, reqs, call, store, front, tasks, health, gen>>

AwsNext == GetInstance \/ Construct \/ AccessProperty

AwsSpec == Init /\ [][AwsNext]_vars

(***************************************************************************)
(* The lazy sub-clients under concurrent first use: tasks of one event     *)
(* loop that each read handle.llm or handle.embed_model once, and reads    *)
(* made after them.                                                        *)
(***************************************************************************)
LazyInit ==
    /\ app = NoApp
    /\ reqs = [r \in Requests |-> IdleRequest]
    /\ call = IdleCall
    /\ store = IdleStore
    /\ front = IdleFront
    /\ cls = [IdleClass EXCEPT
                !.state = AwsService_get_instance(NoClass, "config_a", TRUE).cls]
    /\ tasks = IdleTasks
    /\ health = NoHealth
    /\ gen = IdleGen

\* task t is given the thread and runs until the getter's next suspension
\* point or its return
TaskStep(t) ==
    /\ tasks.current \in {0, t}
    /\ tasks.of[t].pc # "done"
    /\ IF tasks.of[t].pc = "ready"
       THEN /\ \E kind \in BoundToSettings :
                 tasks' = [current |-> IF "checked" \in SuspensionPoints THEN 0 ELSE t,
                           of |-> [tasks.of EXCEPT ![t] =
                                     [pc |-> "checked", kind |-> kind,
                                      missing |-> property_is_none(cls.state,
                                                      cls.state.instance, kind),
                                      seen |-> 0]]]
            /\ UNCHANGED cls
       ELSE LET kind == tasks.of[t].kind
                after == property_build(cls.state, cls.state.instance, kind,
                                        tasks.of[t].missing)
            IN /\ cls' = [cls EXCEPT !.state = after]
               /\ tasks' = [current |-> 0,
                            of |-> [tasks.of EXCEPT ![t] =
                                      [@ EXCEPT !.pc = "done",
                                                !.seen = property_return(after,
                                                             cls.state.instance, kind)]]]
    /\ UNCHANGED <<app, reqs, call, store, front, health, gen>>

LazyNext == AccessProperty \/ \E t \in Tasks : TaskStep(t)

LazySpec == LazyInit /\ [][LazyNext]_vars

(***************************************************************************)
(* What the claims speak of, stated apart from the code's computation.     *)
(***************************************************************************)
\* the positions of s at which an occurrence of p starts
OccurrenceStarts(s, p) ==
    {i \in 1..(Len(s) - Len(p) + 1) : SubSeq(s, i, i + Len(p) - 1) = p}

\* the positions of s that lie inside an occurrence of a pattern of P
Covered(s, P) ==
    {j \in 1..Len(s) : \E p \in P : \E i \in OccurrenceStarts(s, p) :
                          i <= j /\ j < i + Len(p)}

RECURSIVE KeepFrom(_, _, _)
KeepFrom(s, drop, i) ==
    IF i > Len(s) THEN <<>>
    ELSE (IF i \in drop THEN <<>> ELSE <<s[i]>>) \o KeepFrom(s, drop, i + 1)

\* s with every occurrence of every pattern of P deleted
WithoutOccurrences(s, P) == KeepFrom(s, Covered(s, P), 1)

\* s without its leading and trailing whitespace
Trimmed(s) ==
    LET solid == {i \in 1..Len(s) : s[i] \notin Whitespace}
    IN IF solid = {} THEN <<>>
       ELSE SubSeq(s, CHOOSE i \in solid : \A j \in solid : i <= j,
                      CHOOSE i \in solid : \A j \in solid : j <= i)

\* the provider was invoked and the backend answered 2xx with a JSON object
Answered == call.n = 1 /\ call.upstream.kind = "ok"

\* the answer has a first output with a first choice
HasFirstChoice ==
    /\ Answered
    /\ call.upstream.data.output_kind = "list"
    /\ Len(call.upstream.data.output) > 0
    /\ call.upstream.data.output[1].has_choices
    /\ Len(call.upstream.data.output[1].choices) > 0

FirstChoice == call.upstream.data.output[1].choices[1]

\* the answer has no output, or its first output has no choices
NoContentAnswer ==
    /\ Answered
    /\ \/ call.upstream.data.output_kind = "absent"
       \/ /\ call.upstream.data.output_kind = "list"
          /\ \/ Len(call.upstream.data.output) = 0
             \/ ~call.upstream.data.output[1].has_choices
             \/ Len(call.upstream.data.output[1].choices) = 0

(***************************************************************************)
(* C5                                                                      *)
(***************************************************************************)
\* the reading of "the fragments concatenated in order, every occurrence of the
\* sentinels removed, surrounding whitespace trimmed": the occurrences of
\* <|end_of_text|> are deleted, then those of <|eot_id|> in what is left
JoinedCleanedTrimmed(tokens) ==
    Trimmed(WithoutOccurrences(WithoutOccurrences(Join(tokens), {END_OF_TEXT}),
                               {EOT_ID}))

\* C5 as stated: whenever the first choice of the first output carries tokens
\* as a list of string fragments, generate_draft returns the fragments
\* concatenated in order, with every occurrence of <|end_of_text|> and
\* <|eot_id|> removed and surrounding whitespace trimmed.
C5_TokensAlwaysDecideTheText ==
    (HasFirstChoice /\ FirstChoice.tokens_kind = "list")
        => call.result = Return(JoinedCleanedTrimmed(FirstChoice.tokens))

\* C5 amended: when the first choice of the first output has no "text" key and
\* carries tokens as a list of string fragments, generate_draft returns the
\* fragments concatenated in order, with every occurrence of <|end_of_text|>
\* and <|eot_id|> removed and surrounding whitespace trimmed; the tokens
\* "Hello ", "world", "<|eot_id|>" give exactly "Hello world".
C5_TokensJoinedCleanedTrimmed ==
    (HasFirstChoice /\ FirstChoice.text_kind = "absent" /\ FirstChoice.tokens_kind = "list")
        => /\ call.result = Return(JoinedCleanedTrimmed(FirstChoice.tokens))
           /\ FirstChoice.tokens = <<S_Hello, S_world, EOT_ID>>
                => call.result = Return(S_Hello_world)

\* the example of C5 has been parsed
C5_Witness ==
    /\ HasFirstChoice
    /\ FirstChoice.text_kind = "absent"
    /\ FirstChoice.tokens_kind = "list"
    /\ FirstChoice.tokens = <<S_Hello, S_world, EOT_ID>>
    /\ call.result = Return(S_Hello_world)

(***************************************************************************)
(* C6                                                                      *)
(***************************************************************************)
\* C6: for a 2xx answer whose output list is empty or absent, or whose first
\* output has no choices, generate_draft returns the fixed placeholder
\* "Error: Model returned no content." and does not raise.
C6_NoContentGivesPlaceholder ==
    NoContentAnswer => call.result = Return(NO_CONTENT)

\* the answer {"output": []} has been parsed
C6_Witness ==
    /\ Answered
    /\ call.upstream.data = Data("list", <<>>)
    /\ call.result.kind = "return"
    /\ call.result.text = NO_CONTENT

(***************************************************************************)
(* Requests as the claims speak of them.                                   *)
(***************************************************************************)
\* request r was accepted by the body validation and has been answered
Handled(r) == reqs[r].pc = "done" /\ reqs[r].body.patient_email.set

\* the source the request asks for: its model_source, or the configured default
RequestedSource(r) ==
    IF Truthy(reqs[r].body.model_source) THEN reqs[r].body.model_source.v
    ELSE app.config.llm_source

\* the provider the routing rule names for a source string
ProviderFor(source) == IF Contains(S_runpod, Lower(source)) THEN "runpod" ELSE "aws"

\* the provider has a handle after startup
HasHandle(provider) == IF provider = "runpod" THEN app.runpod ELSE app.aws.set

\* the template bound to the provider is registered in the prompt store
TemplateRegistered(provider) ==
    get_prompt(store.instance.prompts, "docmail",
               IF provider = "runpod" THEN "physician_system_prompt"
               ELSE "rag_system_prompt").kind = "return"

\* what the fine-tuned provider would do with the backend's answer
ProviderOutcome(r) ==
    RunPodService_generate_draft("PHYSICIAN", reqs[r].body.patient_email.v,
        Kwargs(TRUE, ORCH_TEMPERATURE_RUNPOD, TRUE, ORCH_MAX_TOKENS), reqs[r].upstream)

(***************************************************************************)
(* C1                                                                      *)
(***************************************************************************)
\* C1: every handled request is routed to exactly one of the two providers,
\* and two requests whose requested sources differ only in letter case are
\* routed to the same provider.
C1_RoutingResolvesToOneProvider ==
    \A r \in Requests :
        Handled(r) =>
            /\ reqs[r].resp.routed \in {"runpod", "aws"}
            /\ \A q \in Requests :
                   (Handled(q) /\ Lower(RequestedSource(q)) = Lower(RequestedSource(r)))
                       => reqs[q].resp.routed = reqs[r].resp.routed

(***************************************************************************)
(* C2                                                                      *)
(***************************************************************************)
\* C2: a handled request whose provider has no handle after startup is
\* answered 503, and no provider is called and no outbound POST is made for it.
C2_MissingHandleGives503 ==
    \A r \in Requests :
        (Handled(r) /\ ~HasHandle(ProviderFor(RequestedSource(r))))
            => /\ reqs[r].resp.status = 503
               /\ reqs[r].resp.client = "none"
               /\ reqs[r].resp.posts = 0

(***************************************************************************)
(* C3                                                                      *)
(***************************************************************************)
\* C3: model_source is optional: a handled request that carries one is routed
\* by it, one that carries none is routed by config.llm_source, and no handled
\* request fails on reading the field.
C3_ModelSourceIsOptional ==
    \A r \in Requests :
        Handled(r) =>
            /\ reqs[r].resp.unhandled # "AttributeError"
            /\ Truthy(reqs[r].body.model_source)
                 => reqs[r].resp.routed = ProviderFor(reqs[r].body.model_source.v)
            /\ ~Truthy(reqs[r].body.model_source)
                 => reqs[r].resp.routed = ProviderFor(app.config.llm_source)

(***************************************************************************)
(* C4                                                                      *)
(***************************************************************************)
\* C4: a handled request with no model_source, when the default routes to the
\* managed provider, its handle exists and the RAG template is registered, is
\* answered 200 after the managed provider was called with the RAG template,
\* and its source_nodes is not empty.
C4_DefaultPathSucceeds ==
    \A r \in Requests :
        (/\ Handled(r)
         /\ ~reqs[r].body.model_source.set
         /\ ProviderFor(app.config.llm_source) = "aws"
         /\ app.aws.set
         /\ TemplateRegistered("aws"))
            => /\ reqs[r].resp.status = 200
               /\ reqs[r].resp.client = "aws"
               /\ reqs[r].resp.system_prompt = "RAG"
               /\ reqs[r].resp.source_nodes # <<>>

(***************************************************************************)
(* C7                                                                      *)
(***************************************************************************)
\* C7: a handled request routed to the fine-tuned provider, whose handle and
\* template exist, while the backend does not answer within the ceiling, is
\* answered with a 5xx status whose detail is the cold-start retry message.
C7_TimeoutSurfacesColdStartMessage ==
    \A r \in Requests :
        (/\ Handled(r)
         /\ ProviderFor(RequestedSource(r)) = "runpod"
         /\ app.runpod
         /\ TemplateRegistered("runpod")
         /\ reqs[r].upstream.kind = "timeout")
            => /\ reqs[r].resp.status >= 500
               /\ reqs[r].resp.detail = TIMEOUT_MESSAGE

(***************************************************************************)
(* C8                                                                      *)
(***************************************************************************)
\* C8: a handled request routed to the fine-tuned provider, whose handle and
\* template exist, for which the provider raises an error (timeout, non-2xx,
\* malformed payload, anything else), is answered 500 with the error's message
\* as detail.
C8_ProviderErrorGives500WithMessage ==
    \A r \in Requests :
        (/\ Handled(r)
         /\ ProviderFor(RequestedSource(r)) = "runpod"
         /\ app.runpod
         /\ TemplateRegistered("runpod")
         /\ ProviderOutcome(r).kind = "raise")
            => /\ reqs[r].resp.status = 500
               /\ reqs[r].resp.detail = ProviderOutcome(r).message
               /\ reqs[r].resp.client = "runpod"

(***************************************************************************)
(* C9                                                                      *)
(***************************************************************************)
\* C9: the fine-tuned provider invoked without a temperature samples at 0.6,
\* and the managed provider's completion client, built without a temperature
\* from the caller, samples at 0.3 (temperatures in tenths).
C9_TemperatureDefaults ==
    /\ (call.n = 1 /\ ~call.kwargs.has_temperature) => call.params.temperature = 6
    /\ app.aws.llm_built => app.aws.llm_temperature = 3

(***************************************************************************)
(* C10                                                                     *)
(***************************************************************************)
\* the pair last looked up is registered: its section is a table of the loaded
\* prompts and holds the name
Registered ==
    /\ store.instance.prompts[store.section].kind = "table"
    /\ store.instance.prompts[store.section].entries[store.name].present

\* a lookup was made on an initialised store
LookedUp == store.n >= 1 /\ store.result.exc # "RuntimeError"

\* C10: get_prompt of a pair that is not registered in the loaded prompts
\* always fails with KeyError and never returns a value.
C10_UnregisteredPairRaisesKeyError ==
    (LookedUp /\ ~Registered) => store.result = Failed("KeyError")

(***************************************************************************)
(* C11                                                                     *)
(***************************************************************************)
\* C11: whenever startup completes and the process serves requests, the
\* provider that default routing resolves config.llm_source to has a handle;
\* a default source whose credentials are absent makes startup fail.
C11_DefaultProviderHasHandleWhenServing ==
    app.phase = "serving" => HasHandle(ProviderFor(app.config.llm_source))

(***************************************************************************)
(* C12                                                                     *)
(***************************************************************************)
\* C12: handling a POST /generate request, however it ends, leaves the config,
\* the provider handles, the vector index and the prompt store unchanged, and
\* the response of a request is decided by that state and the request alone:
\* two requests with the same body and the same backend answer get the same
\* response, whatever was handled before them.
C12_RequestHandlingIsStateless ==
    /\ [][(\E r \in Requests : reqs'[r] # reqs[r])
            => (app' = app /\ store'.instance = store.instance)]_vars
    /\ [](\A r \in Requests :
            reqs[r].pc = "done" =>
                /\ reqs[r].resp = generate_draft(app, store.instance, reqs[r].body,
                                                 reqs[r].upstream)
                /\ \A q \in Requests :
                     (/\ reqs[q].pc = "done"
                      /\ reqs[q].body = reqs[r].body
                      /\ reqs[q].upstream = reqs[r].upstream)
                         => reqs[q].resp = reqs[r].resp)

\* two requests have been handled, one rejected with 422 and one ended in 500
C12_Witness ==
    \E r, q \in Requests :
        /\ r # q
        /\ reqs[r].pc = "done" /\ reqs[r].resp.status = 500
        /\ reqs[q].pc = "done" /\ reqs[q].resp.status = 422
        /\ app.phase = "serving"

(***************************************************************************)
(* C13                                                                     *)
(***************************************************************************)
\* C13: a POST /generate body whose patient_email is the empty string is
\* rejected before the handler runs: the orchestrator processes no request
\* with an empty patient_email and routes none to a provider.
C13_EmptyEmailIsNotProcessed ==
    \A r \in Requests :
        (reqs[r].pc = "done" /\ reqs[r].body.patient_email = Some(EmptyStr))
            => /\ reqs[r].resp.status = 422
               /\ reqs[r].resp.unhandled = ""
               /\ reqs[r].resp.routed = "none"

(***************************************************************************)
(* C14                                                                     *)
(***************************************************************************)
\* the i-th prompt was answered 200
Drafted(i) ==
    front.answers[i].kind = "response" /\ front.answers[i].status_code = 200

\* C14: for every submitted prompt, whatever the backend outcome (200, another
\* status, or a connection failure), the history grows by exactly one user
\* message holding the prompt followed by exactly one assistant message holding
\* the draft or an inline error text, and the session accepts the next prompt.
C14_EveryPromptAddsOneExchange ==
    /\ Len(front.messages) = 2 * Len(front.prompts)
    /\ \A i \in 1..Len(front.prompts) :
         LET user == front.messages[2 * i - 1]
             assistant == front.messages[2 * i]
         IN /\ user.role = "user"
            /\ user.content = <<front.prompts[i]>>
            /\ assistant.role = "assistant"
            /\ Drafted(i) =>
                 assistant.content \in {<<front.answers[i].draft_reply>>, <<NO_DRAFT>>}
            /\ ~Drafted(i) =>
                 /\ assistant.content[1] \in
                      {"**Error ", "**Connection Error:** Could not reach backend at "}
                 /\ assistant.content[Len(assistant.content)] = front.answers[i].text
    /\ Len(front.prompts) < MaxPrompts => ENABLED SubmitPrompt

\* a prompt that met a connection failure was followed by one answered 500
C14_Witness ==
    /\ Len(front.prompts) = 2
    /\ front.answers[1].kind = "ConnectionError"
    /\ front.answers[2].kind = "response" /\ front.answers[2].status_code = 500
    /\ Len(front.messages) = 4
    /\ front.messages[4].content = <<"**Error ", 500, ":** ", "Internal Server Error">>

(***************************************************************************)
(* C15                                                                     *)
(***************************************************************************)
\* C15: a call of initialize_prompt_manager on an initialised store changes
\* nothing and does not fail, whatever its path; on an uninitialised store a
\* call whose file is missing fails with FileNotFoundError and leaves the store
\* uninitialised, so that get_prompt_manager raises, and a call whose file
\* exists loads it; the templates once loaded are never replaced.
C15_FirstSuccessfulLoadIsKept ==
    /\ [](store.init_called =>
            /\ store.before.set
                 => (store.instance = store.before /\ store.init_exc = "")
            /\ (~store.before.set /\ ~store.file.exists)
                 => /\ store.init_exc = "FileNotFoundError"
                    /\ ~store.instance.set
                    /\ get_prompt_manager(store.instance).kind = "raise"
            /\ (~store.before.set /\ store.file.exists)
                 => (store.instance = Instance(store.file.doc) /\ store.init_exc = ""))
    /\ [][store.instance.set => store'.instance = store.instance]_vars

\* a call with a missing file was made on a store that held loaded templates
C15_Witness ==
    /\ store.init_called
    /\ store.before.set
    /\ ~store.file.exists
    /\ store.instance = Instance(FullDoc)
    /\ store.init_exc = ""

(***************************************************************************)
(* C16                                                                     *)
(***************************************************************************)
\* C16: at most one AwsService instance has ever been registered; get_instance
\* on a class that holds an instance returns that instance whatever the config
\* argument; the constructor called once an instance exists raises;
\* get_instance without a config before any instance exists raises; and a call
\* that fails leaves the class as it was, with no instance registered by it.
C16_AtMostOneInstanceRegistered ==
    /\ Cardinality(cls.state.registered) <= 1
    /\ cls.state.instance # 0 => cls.state.registered = {cls.state.instance}
    /\ (cls.last.op = "get_instance" /\ cls.last.before.instance # 0)
         => /\ cls.last.returned = cls.last.before.instance
            /\ cls.last.exc = ""
            /\ cls.state = cls.last.before
    /\ (cls.last.op = "constructor" /\ cls.last.before.instance # 0)
         => (cls.last.exc = "Exception" /\ cls.state = cls.last.before)
    /\ (cls.last.op = "get_instance" /\ cls.last.before.instance = 0
            /\ cls.last.config = "None")
         => (cls.last.exc = "ValueError" /\ cls.state = cls.last.before)
    /\ (cls.last.op \in {"get_instance", "constructor"} /\ cls.last.exc # "")
         => (cls.state = cls.last.before /\ cls.last.returned = 0)

\* get_instance was called with another config on a class that held an instance
C16_Witness ==
    /\ cls.last.op = "get_instance"
    /\ cls.last.config = "config_b"
    /\ cls.last.before.instance = 1
    /\ cls.last.before.objects[1].config = "config_a"
    /\ cls.last.returned = 1
    /\ cls.state.objects[1].config = "config_a"

(***************************************************************************)
(* C17                                                                     *)
(***************************************************************************)
\* C17: on one handle, an access to a sub-client that is not built constructs
\* exactly one client and returns it; an access to one that is built returns
\* the cached object and constructs nothing; an access to one sub-client
\* neither constructs nor replaces another; no sub-client is constructed twice.
C17_SubClientsBuiltOnFirstAccessOnly ==
    /\ \A k \in SubClients : cls.state.built[k] <= 1
    /\ cls.last.op = "property" =>
         LET h == cls.last.before.instance
             k == cls.last.kind
             cached == cls.last.before.objects[h].sub[k]
         IN /\ cached # 0 => (cls.last.returned = cached /\ cls.state = cls.last.before)
            /\ cached = 0 =>
                 /\ cls.state.built[k] = cls.last.before.built[k] + 1
                 /\ cls.last.returned # 0
                 /\ cls.last.returned = cls.state.objects[h].sub[k]
            /\ \A j \in SubClients \ {k} :
                 /\ cls.state.objects[h].sub[j] = cls.last.before.objects[h].sub[j]
                 /\ cls.state.built[j] = cls.last.before.built[j]

\* handle.llm was read a second time
C17_Witness ==
    /\ cls.last.op = "property"
    /\ cls.last.kind = "llm"
    /\ cls.last.before.objects[cls.last.before.instance].sub["llm"] = 1
    /\ cls.last.returned = 1
    /\ cls.state.built["llm"] = 1

(***************************************************************************)
(* C18                                                                     *)
(***************************************************************************)
\* C18: when several tasks read the same sub-client of one handle for the
\* first time concurrently, at most one client object is constructed for it,
\* and every task, every later access and the global Settings binding observe
\* one and the same object.
C18_ConcurrentFirstUseBuildsOneClient ==
    LET h == cls.state.instance
    IN /\ \A k \in SubClients : cls.state.built[k] <= 1
       /\ \A t \in Tasks :
            tasks.of[t].pc = "done" =>
                /\ tasks.of[t].seen # 0
                /\ tasks.of[t].seen = cls.state.objects[h].sub[tasks.of[t].kind]
                /\ tasks.of[t].seen = cls.state.settings[tasks.of[t].kind]
       /\ (cls.last.op = "property" /\ cls.last.kind \in BoundToSettings) =>
            /\ cls.last.returned = cls.state.objects[h].sub[cls.last.kind]
            /\ cls.last.returned = cls.state.settings[cls.last.kind]

\* two tasks started together have both read handle.llm, and it was read again
\* after them
C18_Witness ==
    /\ \E t, u \in Tasks :
         /\ t # u
         /\ tasks.of[t].pc = "done" /\ tasks.of[t].kind = "llm"
         /\ tasks.of[u].pc = "done" /\ tasks.of[u].kind = "llm"
         /\ tasks.of[t].seen = tasks.of[u].seen
         /\ tasks.of[t].seen # 0
    /\ cls.last.op = "property" /\ cls.last.kind = "llm"
    /\ cls.last.before.objects[cls.last.before.instance].sub["llm"] # 0

(***************************************************************************)
(* C19                                                                     *)
(***************************************************************************)
\* request r is bound for the fine-tuned provider, whose handle and template
\* exist
BoundForRunPod(r) ==
    /\ reqs[r].body.patient_email.set
    /\ ProviderFor(RequestedSource(r)) = "runpod"
    /\ app.runpod
    /\ TemplateRegistered("runpod")

\* C19: concurrent requests make progress independently: a request bound for a
\* provider is routed to it and invokes it, and while one request's provider
\* call is in flight every other request that has not been handled yet can be
\* handled.
C19_ProviderCallBlocksOnlyItsRequest ==
    \A r \in Requests :
        /\ (reqs[r].pc = "done" /\ BoundForRunPod(r))
             => (reqs[r].resp.client = "runpod" /\ reqs[r].resp.posts = 1)
        /\ reqs[r].pc = "in_flight"
             => \A q \in Requests \ {r} :
                    reqs[q].pc = "idle" => ENABLED PostGenerate(q)

C21_RequestPassesRoutingThenInvoking ==
    \A r \in Requests :
        /\ Handled(r) =>
             LET p == ProviderFor(RequestedSource(r))
                 resp == reqs[r].resp
             IN /\ resp.status \in {200, 503, 500}
                /\ resp.routed = p
                /\ ~HasHandle(p) =>
                     (resp.status = 503 /\ resp.client = "none" /\ resp.posts = 0)
                /\ (HasHandle(p) /\ TemplateRegistered(p)) =>
                     (resp.client = p /\ resp.status \in {200, 500})
                /\ resp.status = 200 => resp.client = p
        /\ reqs[r].pc = "in_flight" => ENABLED PostGenerate(r)

(***************************************************************************)
(* C22                                                                     *)
(***************************************************************************)
\* the template bound to a provider, as the prompt store holds it
BoundTemplate(provider) ==
    get_prompt(store.instance.prompts, "docmail",
               IF provider = "runpod" THEN "physician_system_prompt"
               ELSE "rag_system_prompt").value

\* C22: a handled request routed to the fine-tuned provider, whose handle and
\* template exist, is executed with the prompt (docmail,
\* physician_system_prompt), and one routed to the managed provider with
\* (docmail, rag_system_prompt), whatever else the request carries.
C22_TemplateIsBoundToTheProvider ==
    \A r \in Requests :
        LET p == ProviderFor(RequestedSource(r))
        IN (Handled(r) /\ HasHandle(p) /\ TemplateRegistered(p))
               => /\ reqs[r].resp.client = p
                  /\ reqs[r].resp.system_prompt = BoundTemplate(p)

(***************************************************************************)
(* C23                                                                     *)
(***************************************************************************)
\* C23: a handled request bound for the fine-tuned provider, for which the
\* provider returns the placeholder "Error: Model returned no content.", is
\* answered 200 with the placeholder as draft_reply and the source_nodes of
\* any fine-tuned draft.
C23_PlaceholderIsAnsweredAsADraft ==
    \A r \in Requests :
        (/\ reqs[r].pc = "done"
         /\ BoundForRunPod(r)
         /\ ProviderOutcome(r) = Return(NO_CONTENT))
            => /\ reqs[r].resp.status = 200
               /\ reqs[r].resp.draft_reply = NO_CONTENT
               /\ reqs[r].resp.source_nodes = <<RUNPOD_LABEL>>

(***************************************************************************)
(* C24                                                                     *)
(***************************************************************************)
\* the first choice carries neither "text" nor "tokens"
FirstChoiceHasNoText ==
    /\ HasFirstChoice
    /\ FirstChoice.text_kind = "absent"
    /\ FirstChoice.tokens_kind = "absent"

\* C24: generate_draft never returns an empty draft for a 2xx answer: what it
\* returns is not the empty string, and an answer with no output, no choices
\* or a first choice with neither text nor tokens gives the placeholder
\* "Error: Model returned no content.".
C24_ParserNeverReturnsEmptyDraft ==
    Answered =>
        /\ call.result.kind = "return" => call.result.text # EmptyStr
        /\ (NoContentAnswer \/ FirstChoiceHasNoText)
             => call.result = Return(NO_CONTENT)

(***************************************************************************)
(* C25                                                                     *)
(***************************************************************************)
\* C25: after startup completes the vector index is loaded only if the AWS
\* handle was constructed; whether startup completes does not depend on the
\* vector store; and every answer of /health reports rag_status "active" when
\* the index is loaded and "inactive" when it is not.
C25_StartupDegradesWithoutAborting ==
    /\ app.phase = "serving" => (~app.aws.set => ~app.index)
    /\ app.phase = "boot" =>
         \A e \in StartEnvs :
             lifespan([e EXCEPT !.chroma_ok = FALSE], store.instance).app.phase
                 = lifespan([e EXCEPT !.chroma_ok = TRUE], store.instance).app.phase
    /\ health.asked =>
         /\ health.response.rag_status \in {"active", "inactive"}
         /\ health.response.rag_status = "active" <=> app.index

\* the service started without its AWS handle while the vector store was
\* there, and /health has reported the index inactive
C25_Witness ==
    /\ app.phase = "serving"
    /\ ~app.aws.set
    /\ ~app.index
    /\ health.asked
    /\ health.response.rag_status = "inactive"

(***************************************************************************)
(* C26                                                                     *)
(***************************************************************************)
\* the checkpoint writes made for a topic
WritesOf(topic) == {k \in 1..Len(gen.file) : gen.file[k].topic = topic}

\* the topics the running or last run skips
Skipped == {t \in Topics : t - 1 < gen.start}

\* C26: in every run the topics skipped are exactly those that had records in
\* the output file when the run started, no topic has its records appended
\* more than once, and when a run completes every topic has had its records
\* appended exactly once.
C26_ResumeSkipsExactlyTheWrittenTopics ==
    /\ gen.runs > 0 => Skipped = gen.had
    /\ \A t \in Topics : Cardinality(WritesOf(t)) <= 1
    /\ gen.pc = "completed" => \A t \in Topics : Cardinality(WritesOf(t)) = 1

====
